---------------------------- MODULE Spec2Model ----------------------------
(***************************************************************************)
(* Model of src/project/src/services/impactCalculations.ts: the asteroid   *)
(* impact pipeline calculateImpact and the exported functions it is built  *)
(* from.                                                                   *)
(*                                                                         *)
(* A JavaScript number is modelled as a binary floating-point value        *)
(*   [k |-> "num", m |-> mantissa, e |-> exponent]   = m * 2^e             *)
(* with a signed mantissa of MantBits bits, rounded to nearest-even after  *)
(* every operation, plus NaN and the two infinities.  The exponent is an   *)
(* unbounded integer: overflow beyond 2^1023 and subnormals are outside    *)
(* the model (the inputs below stay far from both).                        *)
(***************************************************************************)
EXTENDS Integers, Sequences, FiniteSets, TLC

\* Precision of the modelled mantissa, in bits (an IEEE double has 53).
MantBits == 12

\* Number of calculateImpact invocations that may be in flight together.
MaxInFlight == 2

-----------------------------------------------------------------------------
(* JavaScript numbers                                                      *)

\* The finite and infinite number values: m * 2^e, or the infinity of sign m.
Numbers == [k : {"num", "inf"}, m : Int, e : Int]

\* Every number value: the finite ones, the infinities and NaN.
JsNumbers == [k : {"num", "inf", "nan"}, m : Int, e : Int]

NaN == [k |-> "nan", m |-> 0, e |-> 0]

Zero == [k |-> "num", m |-> 0, e |-> 0]

Infinity(s) == [k |-> "inf", m |-> s, e |-> 0]

Abs(n) == IF n < 0 THEN -n ELSE n

Sgn(n) == IF n < 0 THEN -1 ELSE IF n > 0 THEN 1 ELSE 0

\* The number of binary digits of n >= 0.
BitLen[n \in Nat] == IF n = 0 THEN 0 ELSE 1 + BitLen[n \div 2]

\* n / d rounded to nearest, ties to even (n >= 0, d a power of two >= 2).
RoundDiv(n, d) ==
  IF n % d > d \div 2 \/ (n % d = d \div 2 /\ (n \div d) % 2 = 1)
  THEN (n \div d) + 1
  ELSE n \div d

\* The number s * q * 2^e for a sign s and a rounded mantissa q <= 2^MantBits.
Carry(s, q, e) ==
  IF q = 2 ^ MantBits
  THEN [k |-> "num", m |-> s * (2 ^ (MantBits - 1)), e |-> e + 1]
  ELSE [k |-> "num", m |-> s * q, e |-> e]

\* The number nearest to s * a * 2^e for a sign s and a > 0 of len binary digits,
\* in normal form: 2^(MantBits-1) <= |m| < 2^MantBits.
NormLen(s, a, len, e) ==
  IF len <= MantBits
  THEN [k |-> "num", m |-> s * a * (2 ^ (MantBits - len)), e |-> e - (MantBits - len)]
  ELSE Carry(s, RoundDiv(a, 2 ^ (len - MantBits)), e + len - MantBits)

\* The number nearest to m * 2^e.
Norm(m, e) == IF m = 0 THEN Zero ELSE NormLen(Sgn(m), Abs(m), BitLen[Abs(m)], e)

IsNaN(a) == a.k = "nan"

IsNum(a) == a.k = "num"

Sign(a) == Sgn(a.m)

NegFn[a \in JsNumbers] == [a EXCEPT !.m = -a.m]

Neg(a) == NegFn[a]

\* a * b
MulFn[a \in JsNumbers, b \in JsNumbers] ==
  IF IsNaN(a) \/ IsNaN(b) THEN NaN
  ELSE IF a.k = "inf" \/ b.k = "inf"
       THEN IF Sign(a) * Sign(b) = 0 THEN NaN ELSE Infinity(Sign(a) * Sign(b))
       ELSE Norm(a.m * b.m, a.e + b.e)

Mul(a, b) == MulFn[a, b]

\* s * n / d * 2^e for integers n >= 0 and d > 0; the remainder sets a sticky bit.
DivInt(s, n, d, e) == Norm(s * (2 * (n \div d) + (IF n % d = 0 THEN 0 ELSE 1)), e - 1)

\* a / b
DivFn[a \in JsNumbers, b \in JsNumbers] ==
  IF IsNaN(a) \/ IsNaN(b) THEN NaN
  ELSE IF a.k = "inf"
       THEN IF b.k = "inf" THEN NaN
            ELSE Infinity(IF Sign(b) < 0 THEN -Sign(a) ELSE Sign(a))
       ELSE IF b.k = "inf" THEN Zero
       ELSE IF b.m = 0
            THEN IF a.m = 0 THEN NaN ELSE Infinity(Sign(a))
            ELSE DivInt(Sign(a) * Sign(b), Abs(a.m) * (2 ^ (MantBits + 2)), Abs(b.m),
                        a.e - b.e - (MantBits + 2))

Div(a, b) == DivFn[a, b]

\* a + b
AddFn[a \in JsNumbers, b \in JsNumbers] ==
  IF IsNaN(a) \/ IsNaN(b) THEN NaN
  ELSE IF a.k = "inf"
       THEN IF b.k = "inf" /\ b.m # a.m THEN NaN ELSE a
       ELSE IF b.k = "inf" THEN b
       ELSE IF a.m = 0 THEN b
       ELSE IF b.m = 0 THEN a
       ELSE IF a.e - b.e > MantBits + 2 THEN a
       ELSE IF b.e - a.e > MantBits + 2 THEN b
       ELSE IF a.e >= b.e THEN Norm(a.m * (2 ^ (a.e - b.e)) + b.m, b.e)
       ELSE Norm(a.m + b.m * (2 ^ (b.e - a.e)), a.e)

Add(a, b) == AddFn[a, b]

\* a - b
Sub(a, b) == Add(a, Neg(b))

\* a < b (false when either is NaN)
LtFn[a \in JsNumbers, b \in JsNumbers] ==
  /\ ~IsNaN(a)
  /\ ~IsNaN(b)
  /\ a # b
  /\ Sign(Sub(a, b)) < 0

Lt(a, b) == LtFn[a, b]

\* a > b
Gt(a, b) == Lt(b, a)

\* a >= b
GeFn[a \in JsNumbers, b \in JsNumbers] == (a = b /\ ~IsNaN(a)) \/ Lt(b, a)

Ge(a, b) == GeFn[a, b]

\* An integer literal.
Int2Num(n) == Norm(n, 0)

\* A decimal literal n * 10^p, e.g. 4.184e12 = Dec(4184, 9).
Dec(n, p) ==
  IF p >= 0 THEN Mul(Int2Num(n), Int2Num(10 ^ p))
  ELSE Div(Int2Num(n), Int2Num(10 ^ (-p)))

\* Math.max(a, b)
MathMaxFn[a \in JsNumbers, b \in JsNumbers] ==
  IF IsNaN(a) \/ IsNaN(b) THEN NaN
  ELSE IF Lt(a, b) THEN b ELSE a

MathMax(a, b) == MathMaxFn[a, b]

\* Math.min(a, b)
MathMinFn[a \in JsNumbers, b \in JsNumbers] ==
  IF IsNaN(a) \/ IsNaN(b) THEN NaN
  ELSE IF Lt(b, a) THEN b ELSE a

MathMin(a, b) == MathMinFn[a, b]

\* Math.abs(a)
MathAbsFn[a \in JsNumbers] == [a EXCEPT !.m = Abs(a.m)]

MathAbs(a) == MathAbsFn[a]

One == Int2Num(1)

\* Math.PI
MathPI == Dec(314159265, -8)

\* ln 2
Ln2 == Dec(693147181, -9)

\* log10(2) = ln 2 / ln 10
Log10Of2 == Div(Ln2, Dec(230258509, -8))

\* The largest integer <= a, for a finite number a.
FloorFn[a \in JsNumbers] ==
  IF a.e >= 0 THEN a.m * (2 ^ a.e)
  ELSE IF -a.e > MantBits THEN (IF a.m < 0 THEN -1 ELSE 0)
  ELSE a.m \div (2 ^ (-a.e))

Floor(a) == FloorFn[a]

\* 1/i + z/(i+2) + z^2/(i+4) + ... up to the term with 1/9
AtanhSeries[z \in Numbers, i \in Nat] ==
  IF i >= 9 THEN Div(One, Int2Num(i))
  ELSE Add(Div(One, Int2Num(i)), Mul(z, AtanhSeries[z, i + 2]))

\* 2 * atanh(z)
Atanh2Fn[z \in JsNumbers] == Mul(Mul(Int2Num(2), z), AtanhSeries[Mul(z, z), 1])

Atanh2(z) == Atanh2Fn[z]

\* Natural logarithm of a number in [1, 2): 2 * atanh((a - 1) / (a + 1)).
LnMantissaFn[a \in JsNumbers] == Atanh2(Div(Sub(a, One), Add(a, One)))

LnMantissa(a) == LnMantissaFn[a]

\* Base-2 logarithm of a finite number a > 0.
Log2Fn[a \in JsNumbers] ==
  Add(Int2Num(a.e + MantBits - 1),
      Div(LnMantissa([a EXCEPT !.e = 1 - MantBits]), Ln2))

Log2(a) == Log2Fn[a]

\* 1 + u/i * (1 + u/(i+1) * (...)) up to the factor u/8
ExpSeries[u \in Numbers, i \in Nat] ==
  IF i > 8 THEN One
  ELSE Add(One, Mul(Div(u, Int2Num(i)), ExpSeries[u, i + 1]))

\* r * 2^n
Scale(r, n) == [r EXCEPT !.e = r.e + n]

\* 2^t for a finite number t with integer part n.
Exp2Parts(t, n) == Scale(ExpSeries[Mul(Sub(t, Int2Num(n)), Ln2), 1], n)

\* 2^t for a finite number t.
Exp2Fn[t \in JsNumbers] == Exp2Parts(t, Floor(t))

Exp2(t) == Exp2Fn[t]

\* Whether the finite number a is an integer.
IsIntegerFn[a \in JsNumbers] == a.e >= 0 \/ (-a.e < MantBits /\ a.m % (2 ^ (-a.e)) = 0)

IsInteger(a) == IsIntegerFn[a]

\* x^n by repeated multiplication (n >= 1).
PowInt[x \in Numbers, n \in Nat] ==
  IF n <= 1 THEN x ELSE Mul(x, PowInt[x, n - 1])

\* Math.pow(x, y) for a finite exponent y > 0.
MathPowFn[x \in JsNumbers, y \in JsNumbers] ==
  IF IsNaN(x) THEN NaN
  ELSE IF IsInteger(y) THEN PowInt[x, Floor(y)]
  ELSE IF x.k = "inf" THEN (IF x.m > 0 THEN x ELSE Infinity(1))
  ELSE IF x.m = 0 THEN Zero
  ELSE IF x.m < 0 THEN NaN
  ELSE Exp2(Mul(y, Log2(x)))

MathPow(x, y) == MathPowFn[x, y]

\* Math.log10(x)
MathLog10Fn[x \in JsNumbers] ==
  IF IsNaN(x) THEN NaN
  ELSE IF x.m < 0 THEN NaN
  ELSE IF x.k = "inf" THEN x
  ELSE IF x.m = 0 THEN Infinity(-1)
  ELSE Mul(Log2(x), Log10Of2)

MathLog10(x) == MathLog10Fn[x]

\* 1 - z/(i(i+1)) * (1 - z/((i+2)(i+3)) * (...)) up to i = 10
SinSeries[z \in Numbers, i \in Nat] ==
  IF i > 10 THEN One
  ELSE Sub(One, Mul(Div(z, Int2Num(i * (i + 1))), SinSeries[z, i + 2]))

\* sin(x) for 0 <= x <= pi/2.
SinQuadrantFn[x \in JsNumbers] == Mul(x, SinSeries[Mul(x, x), 2])

SinQuadrant(x) == SinQuadrantFn[x]

\* sin(x) for 0 <= x <= 3*pi/2.
SinPositiveFn[x \in JsNumbers] ==
  IF Gt(x, MathPI) THEN Neg(SinQuadrant(Sub(x, MathPI)))
  ELSE IF Gt(x, Div(MathPI, Int2Num(2))) THEN SinQuadrant(Sub(MathPI, x))
  ELSE SinQuadrant(x)

SinPositive(x) == SinPositiveFn[x]

\* Math.sin(x) for |x| <= 3*pi/2.
MathSinFn[x \in JsNumbers] ==
  IF IsNaN(x) \/ x.k = "inf" THEN NaN
  ELSE IF x.m < 0 THEN Neg(SinPositive(Neg(x)))
  ELSE SinPositive(x)

MathSin(x) == MathSinFn[x]

\* Math.round(x): the nearest integer, ties towards +Infinity.
MathRoundFn[x \in JsNumbers] ==
  IF ~IsNum(x) THEN x
  ELSE IF x.e >= 0 THEN x
  ELSE IF -x.e > MantBits THEN Zero
  ELSE Int2Num((2 * x.m + 2 ^ (-x.e)) \div (2 ^ (1 - x.e)))

MathRound(x) == MathRoundFn[x]

-----------------------------------------------------------------------------
(* Constants and pure functions of impactCalculations.ts                   *)

ASTEROID_DENSITY == Int2Num(2000)

TNT_ENERGY == Dec(4184, 9)

EARTH_OCEAN_COVERAGE == Dec(71, -2)

\* A variant of calculateMass whose volume grows with the square of the radius.
calculateMassSquare(diameter) ==
  Mul(Mul(Mul(Div(Int2Num(4), Int2Num(3)), MathPI),
          MathPow(Div(diameter, Int2Num(2)), Int2Num(2))), ASTEROID_DENSITY)

calculateMass(diameter) ==
  LET radius == Div(diameter, Int2Num(2))
      volume == Mul(Mul(Div(Int2Num(4), Int2Num(3)), MathPI), MathPow(radius, Int2Num(3)))
  IN  Mul(volume, ASTEROID_DENSITY)

\* const energyJoules = 0.5 * mass * Math.pow(velocityMs, 2)
kineticEnergyJoules(mass, velocity) ==
  LET velocityMs == Mul(velocity, Int2Num(1000))
  IN  Mul(Mul(Dec(5, -1), mass), MathPow(velocityMs, Int2Num(2)))

\* A variant of calculateEnergy whose velocity is not squared.
calculateEnergyLinear(mass, velocity) ==
  Div(Mul(Mul(Dec(5, -1), mass), Mul(velocity, Int2Num(1000))), TNT_ENERGY)

calculateEnergy(mass, velocity) ==
  LET energyJoules == kineticEnergyJoules(mass, velocity)
      energyMegatons == Div(energyJoules, TNT_ENERGY)
  IN  energyMegatons

calculateCraterDiameter(energy, velocity, angle, isOcean) ==
  LET angleRadians == Div(Mul(angle, MathPI), Int2Num(180))
      angleEfficiency == MathPow(MathSin(angleRadians), Dec(3, -1))
      terrainFactor == IF isOcean THEN Dec(7, -1) ELSE One
      scalingConstant == Dec(8, -1)
      diameterKm == Mul(Mul(Mul(scalingConstant, MathPow(energy, Dec(33, -2))),
                            angleEfficiency), terrainFactor)
  IN  MathMax(Dec(1, -1), diameterKm)

\* A variant of calculateCraterDepth with a depth-to-diameter ratio of 1:3.
calculateCraterDepthThird(diameter) == Div(diameter, Int2Num(3))

calculateCraterDepth(diameter) == Div(diameter, Int2Num(4))

calculateShockwaveRadius(energy) == Mul(MathPow(energy, Dec(33, -2)), Dec(25, -1))

calculateThermalRadius(energy) == Mul(MathPow(energy, Dec(41, -2)), Dec(32, -1))

\* const energyJoules = energy * 1e6 * TNT_ENERGY
seismicEnergyJoules(energy) == Mul(Mul(energy, Dec(1, 6)), TNT_ENERGY)

calculateSeismicMagnitude(energy) ==
  LET energyJoules == seismicEnergyJoules(energy)
  IN  Sub(Mul(Div(Int2Num(2), Int2Num(3)), MathLog10(energyJoules)), Dec(29, -1))

\* A variant of PacificBox that reaches ten degrees further east.
PacificBoxWide(lat, lon) ==
  /\ Gt(lon, Int2Num(120)) \/ Lt(lon, Int2Num(-60))
  /\ Lt(MathAbs(lat), Int2Num(60))

\* (lon > 120 || lon < -70) && Math.abs(lat) < 60
PacificBox(lat, lon) ==
  /\ Gt(lon, Int2Num(120)) \/ Lt(lon, Int2Num(-70))
  /\ Lt(MathAbs(lat), Int2Num(60))

\* lon > -70 && lon < -10 && Math.abs(lat) < 60
AtlanticBox(lat, lon) ==
  /\ Gt(lon, Int2Num(-70))
  /\ Lt(lon, Int2Num(-10))
  /\ Lt(MathAbs(lat), Int2Num(60))

\* lon > 40 && lon < 120 && lat < 20 && lat > -50
IndianBox(lat, lon) ==
  /\ Gt(lon, Int2Num(40))
  /\ Lt(lon, Int2Num(120))
  /\ Lt(lat, Int2Num(20))
  /\ Gt(lat, Int2Num(-50))

\* A variant of isOceanImpact without the Indian Ocean box.
isOceanImpactNoIndian(lat, lon, random) ==
  IF PacificBox(lat, lon) \/ AtlanticBox(lat, lon) THEN [value |-> TRUE, draws |-> <<>>]
  ELSE [value |-> Lt(random, EARTH_OCEAN_COVERAGE), draws |-> <<random>>]

\* A variant of isOceanImpact that calls Math.random() before it looks at the boxes.
isOceanImpactDrawFirst(lat, lon, random) ==
  [value |-> PacificBox(lat, lon) \/ AtlanticBox(lat, lon) \/ IndianBox(lat, lon)
             \/ Lt(random, EARTH_OCEAN_COVERAGE),
   draws |-> <<random>>]

\* A variant of isOceanImpact whose fallback counts a draw equal to the ocean
\* coverage as ocean.
isOceanImpactAtMost(lat, lon, random) ==
  IF PacificBox(lat, lon) \/ AtlanticBox(lat, lon) \/ IndianBox(lat, lon)
  THEN [value |-> TRUE, draws |-> <<>>]
  ELSE [value |-> ~Gt(random, EARTH_OCEAN_COVERAGE), draws |-> <<random>>]

\* `random` is the value the next Math.random() call would deliver; `draws`
\* lists the values the call consumed, in order.
isOceanImpact(lat, lon, random) ==
  IF PacificBox(lat, lon) THEN [value |-> TRUE, draws |-> <<>>]
  ELSE IF AtlanticBox(lat, lon) THEN [value |-> TRUE, draws |-> <<>>]
  ELSE IF IndianBox(lat, lon) THEN [value |-> TRUE, draws |-> <<>>]
  ELSE [value |-> Lt(random, EARTH_OCEAN_COVERAGE), draws |-> <<random>>]

\* A variant of calculateTsunamiHeight without the cap at half the water depth.
calculateTsunamiHeightUncapped(energy, craterDiameter, waterDepth) ==
  Mul(Mul(Div(Mul(craterDiameter, Int2Num(1000)), Int2Num(10)),
          MathPow(energy, Dec(25, -2))), Dec(1, -1))

calculateTsunamiHeight(energy, craterDiameter, waterDepth) ==
  LET energyFactor == MathPow(energy, Dec(25, -2))
      craterFactor == Mul(craterDiameter, Int2Num(1000))
      initialHeight == MathMin(Div(craterFactor, Int2Num(10)), Mul(waterDepth, Dec(5, -1)))
  IN  Mul(Mul(initialHeight, energyFactor), Dec(1, -1))

\* The default value of calculateTsunamiHeight's waterDepth parameter.
DefaultWaterDepth == Int2Num(4000)

latitudeBaseDensity(lat) ==
  LET absLat == MathAbs(lat)
  IN  IF Lt(absLat, Int2Num(30)) THEN Int2Num(200)
      ELSE IF Lt(absLat, Int2Num(50)) THEN Int2Num(150)
      ELSE IF Lt(absLat, Int2Num(70)) THEN Int2Num(20)
      ELSE Int2Num(1)

longitudeMultiplier(lon) ==
  IF Gt(lon, Int2Num(-180)) /\ Lt(lon, Int2Num(-50)) THEN Dec(8, -1)
  ELSE IF Gt(lon, Int2Num(-50)) /\ Lt(lon, Int2Num(50)) THEN Dec(12, -1)
  ELSE IF Gt(lon, Int2Num(50)) /\ Lt(lon, Int2Num(150)) THEN Dec(15, -1)
  ELSE Dec(3, -1)

getPopulationDensity(lat, lon, random) ==
  LET baseDensity == Mul(latitudeBaseDensity(lat), longitudeMultiplier(lon))
      variation == Add(Dec(5, -1), random)
  IN  [value |-> MathMax(One, Mul(baseDensity, variation)), draws |-> <<random>>]

\* estimateAffectedPopulation after its await: density is the awaited value.
affectedPopulationOf(density, shockwaveRadius, thermalRadius) ==
  LET affectedArea == Mul(MathPI, MathPow(MathMax(shockwaveRadius, thermalRadius), Int2Num(2)))
  IN  MathRound(Mul(density, affectedArea))

-----------------------------------------------------------------------------
(* Inputs                                                                  *)

\* An AsteroidData record; latitude and longitude are given in tenths of a degree.
AsteroidData(diameter, velocity, angle, lat10, lon10) ==
  [diameter |-> Int2Num(diameter), velocity |-> Int2Num(velocity),
   angle |-> Int2Num(angle), impactLat |-> Dec(lat10, -1), impactLon |-> Dec(lon10, -1)]

\* The application's default parameters (DEVELOPER_GUIDE.md, App.tsx state).
DefaultScenario == AsteroidData(500, 20, 45, 407, -740)

\* The Chicxulub entry of the documented historical impacts, at 60 degrees.
ChicxulubScenario == AsteroidData(10000, 20, 60, 213, -895)

\* The Tunguska entry of the documented historical impacts: outside every ocean box.
TunguskaScenario == AsteroidData(60, 15, 45, 609, 1019)

\* The AsteroidData records calculateImpact is called with.
Scenarios ==
  { DefaultScenario, ChicxulubScenario, TunguskaScenario,
    AsteroidData(1, 1, 30, 489, 23),        \* tiny body, Europe: random fallback
    AsteroidData(300, 17, 90, -200, 800),   \* Indian Ocean box
    AsteroidData(0, 20, 45, 300, -400),     \* diameter = 0, Atlantic box
    AsteroidData(500, 20, 0, 100, -700),    \* angle = 0, on the boundary lon = -70
    AsteroidData(500, 20, -30, 489, 23),    \* angle < 0
    AsteroidData(-500, 20, 45, 750, 1600) } \* diameter < 0, polar, sparsest density

\* The scenarios of the calls that are in flight together: one inside an ocean
\* box, one outside every box.
ConcurrentScenarios == { DefaultScenario, TunguskaScenario }

\* The values Math.random() may deliver: the edge 0, the ocean threshold, and above it.
RandomValues == { Zero, EARTH_OCEAN_COVERAGE, Dec(99, -2) }

\* The values Math.random() delivers to the calls in flight together: one below
\* and one above the ocean threshold.
ConcurrentRandomValues == { Zero, Dec(99, -2) }

-----------------------------------------------------------------------------
(* calculateImpact as a state machine                                      *)

VARIABLES
  pc,         \* pc[i]: where invocation i of calculateImpact stands
  promise,    \* promise[i]: state of the promise calculateImpact returned
  data,       \* data[i]: the AsteroidData argument of invocation i
  frame,      \* frame[i]: the local constants of invocation i
  results,    \* results[i]: the ImpactResults record the promise was fulfilled with
  drawn,      \* drawn[i]: the Math.random() values invocation i consumed, in order
  randomLog,  \* the invocations that called Math.random(), in call order
  call        \* the last direct call of an exported pure function

vars == <<pc, promise, data, frame, results, drawn, randomLog, call>>

Invocations == 1 .. MaxInFlight

Undefined == [k |-> "undefined", m |-> 0, e |-> 0]

NoData == [diameter |-> Undefined, velocity |-> Undefined, angle |-> Undefined,
           impactLat |-> Undefined, impactLon |-> Undefined]

NoFrame == [mass |-> Undefined, energy |-> Undefined, isOcean |-> Undefined,
            craterDiameter |-> Undefined, craterDepth |-> Undefined,
            shockwaveRadius |-> Undefined, thermalRadius |-> Undefined,
            seismicMagnitude |-> Undefined, density |-> Undefined,
            affectedPopulation |-> Undefined]

NoResults == [none |-> TRUE]

\* No exported function has been called directly yet.
NoCall == [fn |-> "none", args |-> <<>>, random |-> Undefined, ret |-> Undefined,
           draws |-> <<>>]

Init ==
  /\ pc = [i \in Invocations |-> "idle"]
  /\ promise = [i \in Invocations |-> "none"]
  /\ data = [i \in Invocations |-> NoData]
  /\ frame = [i \in Invocations |-> NoFrame]
  /\ results = [i \in Invocations |-> NoResults]
  /\ drawn = [i \in Invocations |-> <<>>]
  /\ randomLog = <<>>
  /\ call = NoCall

\* Lines 199-202 and estimateAffectedPopulation up to its await: the constants
\* that are computed from energy, isOcean and craterDiameter.
frameOfCrater(mass, energy, isOcean, craterDiameter, density) ==
  [mass |-> mass, energy |-> energy, isOcean |-> isOcean,
   craterDiameter |-> craterDiameter,
   craterDepth |-> calculateCraterDepth(craterDiameter),
   shockwaveRadius |-> calculateShockwaveRadius(energy),
   thermalRadius |-> calculateThermalRadius(energy),
   seismicMagnitude |-> calculateSeismicMagnitude(energy),
   density |-> density,
   affectedPopulation |-> Undefined]

\* A variant of frameOfOcean that sizes the crater for land whatever the
\* classification was.
frameOfOceanLandCrater(d, mass, energy, ocean, density) ==
  [frame |-> frameOfCrater(mass, energy, ocean.value,
                           calculateCraterDiameter(energy, d.velocity, d.angle, FALSE),
                           density.value),
   draws |-> ocean.draws \o density.draws]

\* Line 198: const craterDiameter = calculateCraterDiameter(energy, velocity, angle, isOcean)
frameOfOcean(d, mass, energy, ocean, density) ==
  [frame |-> frameOfCrater(mass, energy, ocean.value,
                           calculateCraterDiameter(energy, d.velocity, d.angle, ocean.value),
                           density.value),
   draws |-> ocean.draws \o density.draws]

\* Line 197: const isOcean = isOceanImpact(impactLat, impactLon); line 185:
\* getPopulationDensity(lat, lon) takes the next Math.random() value after it.
frameOfEnergy(d, r1, r2, mass, energy, ocean) ==
  frameOfOcean(d, mass, energy, ocean,
               getPopulationDensity(d.impactLat, d.impactLon,
                                    IF ocean.draws = <<>> THEN r1 ELSE r2))

\* Line 196: const energy = calculateEnergy(mass, velocity)
frameOfMass(d, r1, r2, mass) ==
  frameOfEnergy(d, r1, r2, mass, calculateEnergy(mass, d.velocity),
                isOceanImpact(d.impactLat, d.impactLon, r1))

\* calculateImpact from its entry to the await of estimateAffectedPopulation's
\* promise: lines 195-202, then estimateAffectedPopulation up to its own await,
\* which runs getPopulationDensity to completion.  r1 and r2 are the values the
\* next two Math.random() calls would deliver.
syncFrame(d, r1, r2) == frameOfMass(d, r1, r2, calculateMass(d.diameter))

\* A variant of buildResults that sets tsunamiHeight on every record.
buildResultsAlways(f) ==
  [mass |-> f.mass, energy |-> f.energy, craterDiameter |-> f.craterDiameter,
   craterDepth |-> f.craterDepth, shockwaveRadius |-> f.shockwaveRadius,
   thermalRadius |-> f.thermalRadius, seismicMagnitude |-> f.seismicMagnitude,
   isOceanImpact |-> f.isOcean, affectedPopulation |-> f.affectedPopulation,
   tsunamiHeight |-> calculateTsunamiHeight(f.energy, f.craterDiameter, DefaultWaterDepth)]

\* Lines 211-227: the record the promise is fulfilled with.
buildResults(f) ==
  IF f.isOcean
  THEN [mass |-> f.mass, energy |-> f.energy, craterDiameter |-> f.craterDiameter,
        craterDepth |-> f.craterDepth, shockwaveRadius |-> f.shockwaveRadius,
        thermalRadius |-> f.thermalRadius, seismicMagnitude |-> f.seismicMagnitude,
        isOceanImpact |-> f.isOcean, affectedPopulation |-> f.affectedPopulation,
        tsunamiHeight |-> calculateTsunamiHeight(f.energy, f.craterDiameter, DefaultWaterDepth)]
  ELSE [mass |-> f.mass, energy |-> f.energy, craterDiameter |-> f.craterDiameter,
        craterDepth |-> f.craterDepth, shockwaveRadius |-> f.shockwaveRadius,
        thermalRadius |-> f.thermalRadius, seismicMagnitude |-> f.seismicMagnitude,
        isOceanImpact |-> f.isOcean, affectedPopulation |-> f.affectedPopulation]

\* The assignments of a call of calculateImpact(d) whose synchronous part
\* computed s.frame and consumed the random values s.draws.
CallWith(i, d, s) ==
  /\ pc[i] = "idle"
  /\ \A j \in Invocations : j < i => pc[j] # "idle"
  /\ frame' = [frame EXCEPT ![i] = s.frame]
  /\ drawn' = [drawn EXCEPT ![i] = s.draws]
  /\ randomLog' = randomLog \o [n \in 1 .. Len(s.draws) |-> i]
  /\ data' = [data EXCEPT ![i] = d]
  /\ pc' = [pc EXCEPT ![i] = "estimateAwait"]
  /\ promise' = [promise EXCEPT ![i] = "pending"]
  /\ UNCHANGED <<results, call>>

\* A caller invokes calculateImpact(d) while the random source is about to
\* deliver r1 and r2; invocations are numbered in call order.
Call(i, d, r1, r2) == CallWith(i, d, syncFrame(d, r1, r2))

\* A variant of ResumeEstimate in which getPopulationDensity takes its
\* Math.random() value only after the await: the variation is drawn again when
\* estimateAffectedPopulation resumes.
ResumeEstimateDrawing(i) ==
  /\ pc[i] = "estimateAwait"
  /\ frame' = [frame EXCEPT ![i].affectedPopulation =
                 affectedPopulationOf(frame[i].density, frame[i].shockwaveRadius,
                                      frame[i].thermalRadius)]
  /\ drawn' = [drawn EXCEPT ![i] = Append(drawn[i], Dec(99, -2))]
  /\ randomLog' = Append(randomLog, i)
  /\ pc' = [pc EXCEPT ![i] = "impactAwait"]
  /\ UNCHANGED <<promise, data, results, call>>

\* A variant of ResumeEstimate that takes the density from a slot shared by all
\* invocations: the one the first invocation filled.
ResumeEstimateShared(i) ==
  /\ pc[i] = "estimateAwait"
  /\ frame' = [frame EXCEPT ![i].affectedPopulation =
                 affectedPopulationOf(frame[1].density, frame[i].shockwaveRadius,
                                      frame[i].thermalRadius)]
  /\ pc' = [pc EXCEPT ![i] = "impactAwait"]
  /\ UNCHANGED <<promise, data, results, drawn, randomLog, call>>

\* estimateAffectedPopulation resumes after `await getPopulationDensity(...)`
\* and returns; calculateImpact is still suspended at its own await.
ResumeEstimate(i) ==
  /\ pc[i] = "estimateAwait"
  /\ frame' = [frame EXCEPT ![i].affectedPopulation =
                 affectedPopulationOf(frame[i].density, frame[i].shockwaveRadius,
                                      frame[i].thermalRadius)]
  /\ pc' = [pc EXCEPT ![i] = "impactAwait"]
  /\ UNCHANGED <<promise, data, results, drawn, randomLog, call>>

\* A variant of ResumeImpact whose record carries a count kept in module-level
\* state shared by all invocations: the number of Math.random() calls so far.
ResumeImpactShared(i) ==
  /\ pc[i] = "impactAwait"
  /\ results' = [results EXCEPT ![i] =
                   [mass |-> frame[i].mass, energy |-> frame[i].energy,
                    isOceanImpact |-> frame[i].isOcean,
                    affectedPopulation |-> Int2Num(Len(randomLog))]]
  /\ pc' = [pc EXCEPT ![i] = "returned"]
  /\ promise' = [promise EXCEPT ![i] = "fulfilled"]
  /\ UNCHANGED <<data, frame, drawn, randomLog, call>>

\* A variant of ResumeImpact that writes the classification back into its
\* argument: it overwrites data.angle before it returns.
ResumeImpactWriting(i) ==
  /\ pc[i] = "impactAwait"
  /\ results' = [results EXCEPT ![i] = buildResults(frame[i])]
  /\ data' = [data EXCEPT ![i].angle = Int2Num(90)]
  /\ pc' = [pc EXCEPT ![i] = "returned"]
  /\ promise' = [promise EXCEPT ![i] = "fulfilled"]
  /\ UNCHANGED <<frame, drawn, randomLog, call>>

\* A variant of ResumeImpact that starts the population estimate over instead
\* of returning.
ResumeImpactRetry(i) ==
  /\ pc[i] = "impactAwait"
  /\ pc' = [pc EXCEPT ![i] = "estimateAwait"]
  /\ UNCHANGED <<promise, data, frame, results, drawn, randomLog, call>>

\* calculateImpact resumes after `await estimateAffectedPopulation(...)`,
\* builds the record and returns it.
ResumeImpact(i) ==
  /\ pc[i] = "impactAwait"
  /\ results' = [results EXCEPT ![i] = buildResults(frame[i])]
  /\ pc' = [pc EXCEPT ![i] = "returned"]
  /\ promise' = [promise EXCEPT ![i] = "fulfilled"]
  /\ UNCHANGED <<data, frame, drawn, randomLog, call>>

\* One caller, one invocation at a time: every scenario.
Next ==
  \/ \E d \in Scenarios, r1, r2 \in RandomValues : Call(1, d, r1, r2)
  \/ ResumeEstimate(1)
  \/ ResumeImpact(1)

Spec == Init /\ [][Next]_vars

\* Up to MaxInFlight invocations in flight, interleaved at their awaits.
NextConcurrent ==
  \/ \E i \in Invocations, d \in ConcurrentScenarios, r1, r2 \in ConcurrentRandomValues :
       Call(i, d, r1, r2)
  \/ \E i \in Invocations : ResumeEstimate(i)
  \/ \E i \in Invocations : ResumeImpact(i)

SpecConcurrent == Init /\ [][NextConcurrent]_vars

\* The event loop runs the continuation of every await whose promise is
\* resolved: both awaits wait for promises that are resolved when they are
\* reached, so each resumption, once enabled, is eventually taken.
EventLoopFairness ==
  \A i \in Invocations : WF_vars(ResumeEstimate(i)) /\ WF_vars(ResumeImpact(i))

\* The scenarios of the invocations whose progress is followed: an ocean and a
\* land impact, a diameter of 0 and an angle below 0.
FairScenarios ==
  { DefaultScenario, TunguskaScenario, AsteroidData(0, 20, 45, 300, -400),
    AsteroidData(500, 20, -30, 489, 23) }

\* Up to MaxInFlight invocations in flight, each delivered the random value 0.99.
NextFair ==
  \/ \E i \in Invocations, d \in FairScenarios : Call(i, d, Dec(99, -2), Dec(99, -2))
  \/ \E i \in Invocations : ResumeEstimate(i)
  \/ \E i \in Invocations : ResumeImpact(i)

SpecConcurrentFair == Init /\ [][NextFair]_vars /\ EventLoopFairness

-----------------------------------------------------------------------------
(* Direct calls of the exported pure functions: each behaviour makes one   *)
(* call, with any of the arguments below.                                  *)

\* Largest diameter of the grid calculateMass is called with, in tenths of a metre.
MaxDiameterTenths == 40

\* Diameters (m) calculateMass is called with: a grid of tenths, the documented
\* bodies, neighbouring 12-bit values, zero and a negative value.
MassDiameters ==
  { Dec(n, -1) : n \in 1 .. MaxDiameterTenths }
    \cup { Int2Num(60), Int2Num(500), Int2Num(2048), Int2Num(2049), Int2Num(4095),
           Int2Num(4096), Int2Num(10000), Zero, Int2Num(-10) }

\* Masses (kg) calculateEnergy is called with; 1.309e11 kg is a 500 m body.
EnergyMasses ==
  { Zero, One, Int2Num(3), Int2Num(1000), Dec(1309, 8), Int2Num(-5) }

\* Velocities (km/s) calculateEnergy is called with.
EnergyVelocities ==
  { Zero, One, Int2Num(11), Dec(175, -1), Int2Num(20), Int2Num(72), Int2Num(-20) }

\* Energies (megatons) calculateCraterDiameter is called with.
CraterEnergies == { Zero, Dec(1, -9), One, Dec(626, 4) }

\* Impact angles (degrees) calculateCraterDiameter is called with.
CraterAngles == { Int2Num(-30), Zero, Int2Num(30), Int2Num(45), Int2Num(90) }

\* Latitudes and longitudes, in tenths of a degree, isOceanImpact is called with:
\* inside, outside and on the edges of the three boxes.
OceanLats == { -600, -500, -499, -200, 0, 199, 200, 599, 600, 750 }

OceanLons == { -1500, -701, -700, -699, -400, -101, -100, 23, 400, 401, 800, 1199, 1200, 1201 }

CallCalculateMass(diameter) ==
  /\ call = NoCall
  /\ call' = [fn |-> "calculateMass", args |-> <<diameter>>, random |-> Undefined,
              ret |-> calculateMass(diameter), draws |-> <<>>]
  /\ UNCHANGED <<pc, promise, data, frame, results, drawn, randomLog>>

\* waterDepth: number = 4000: the value of the parameter inside the function
\* when the caller passed `passed` (Undefined: the argument was left out).
waterDepthOrDefault(passed) == IF passed = Undefined THEN DefaultWaterDepth ELSE passed

\* Energies (megatons) calculateTsunamiHeight is called with.
TsunamiEnergies == { One, Int2Num(15), Dec(626, 4) }

\* Crater diameters (km) calculateTsunamiHeight is called with: the floor, and
\* values below, at and above 1/200 of each water depth.
TsunamiCraters ==
  { Dec(1, -1), Int2Num(4), Int2Num(5), Int2Num(6), Dec(199, -1), Int2Num(20),
    Dec(201, -1), Int2Num(88) }

\* Water depths (m) calculateTsunamiHeight is called with; Undefined: left out.
TsunamiDepths == { Undefined, Int2Num(4000), Int2Num(1000) }

CallCalculateTsunamiHeight(energy, craterDiameter, waterDepth) ==
  /\ call = NoCall
  /\ call' = [fn |-> "calculateTsunamiHeight",
              args |-> <<energy, craterDiameter, waterDepth>>, random |-> Undefined,
              ret |-> calculateTsunamiHeight(energy, craterDiameter,
                                             waterDepthOrDefault(waterDepth)),
              draws |-> <<>>]
  /\ UNCHANGED <<pc, promise, data, frame, results, drawn, randomLog>>

CallCalculateEnergy(mass, velocity) ==
  /\ call = NoCall
  /\ call' = [fn |-> "calculateEnergy", args |-> <<mass, velocity>>, random |-> Undefined,
              ret |-> calculateEnergy(mass, velocity), draws |-> <<>>]
  /\ UNCHANGED <<pc, promise, data, frame, results, drawn, randomLog>>

CallCalculateCraterDiameter(energy, velocity, angle, isOcean) ==
  /\ call = NoCall
  /\ call' = [fn |-> "calculateCraterDiameter", args |-> <<energy, velocity, angle, isOcean>>,
              random |-> Undefined,
              ret |-> calculateCraterDiameter(energy, velocity, angle, isOcean),
              draws |-> <<>>]
  /\ UNCHANGED <<pc, promise, data, frame, results, drawn, randomLog>>

\* isOceanImpact(lat10 / 10, lon10 / 10) while the random source is about to
\* deliver `random`.
CallIsOceanImpact(lat10, lon10, random) ==
  /\ call = NoCall
  /\ call' = [fn |-> "isOceanImpact", args |-> <<lat10, lon10>>, random |-> random,
              ret |-> isOceanImpact(Dec(lat10, -1), Dec(lon10, -1), random).value,
              draws |-> isOceanImpact(Dec(lat10, -1), Dec(lon10, -1), random).draws]
  /\ UNCHANGED <<pc, promise, data, frame, results, drawn, randomLog>>

NextFn ==
  \/ \E energy \in TsunamiEnergies, craterDiameter \in TsunamiCraters,
        waterDepth \in TsunamiDepths :
       CallCalculateTsunamiHeight(energy, craterDiameter, waterDepth)
  \/ \E diameter \in MassDiameters : CallCalculateMass(diameter)
  \/ \E mass \in EnergyMasses, velocity \in EnergyVelocities :
       CallCalculateEnergy(mass, velocity)
  \/ \E energy \in CraterEnergies, angle \in CraterAngles, isOcean \in BOOLEAN :
       CallCalculateCraterDiameter(energy, Int2Num(20), angle, isOcean)
  \/ \E lat10 \in OceanLats, lon10 \in OceanLons, random \in RandomValues :
       CallIsOceanImpact(lat10, lon10, random)

SpecFn == Init /\ [][NextFn]_vars

-----------------------------------------------------------------------------
(* Properties                                                              *)

\* Invocation i has returned: its promise is fulfilled with results[i].
Fulfilled(i) == promise[i] = "fulfilled"

\* C1: in every record calculateImpact returns, the field tsunamiHeight is
\* present if and only if the field isOceanImpact is true.
C1_TsunamiIffOcean ==
  \A i \in Invocations :
    Fulfilled(i) => (("tsunamiHeight" \in DOMAIN results[i]) <=> results[i].isOceanImpact)

\* C1 witness: an impact outside every box that the random fallback classified
\* as ocean has returned a record with tsunamiHeight.
C1_Witness ==
  /\ Fulfilled(1)
  /\ data[1] = TunguskaScenario
  /\ results[1].isOceanImpact
  /\ "tsunamiHeight" \in DOMAIN results[1]

\* C2: in every record calculateImpact returns, craterDepth is a quarter of the
\* craterDiameter of the same record: the same mantissa two binary places down,
\* or NaN when craterDiameter is NaN.
C2_DepthIsQuarterDiameter ==
  \A i \in Invocations :
    Fulfilled(i) =>
      \/ IsNaN(results[i].craterDiameter) /\ IsNaN(results[i].craterDepth)
      \/ /\ IsNum(results[i].craterDiameter)
         /\ IsNum(results[i].craterDepth)
         /\ results[i].craterDepth.m = results[i].craterDiameter.m
         /\ results[i].craterDepth.e = results[i].craterDiameter.e - 2

\* C2 witness: the default scenario has returned a crater above the 0.1 km floor.
C2_Witness ==
  /\ Fulfilled(1)
  /\ data[1] = DefaultScenario
  /\ Gt(results[1].craterDiameter, One)
  /\ Gt(results[1].craterDepth, Zero)

\* C3: calculateCraterDiameter returns a value >= 0.1 for every energy, every
\* angle and both terrain kinds.
C3_CraterAtLeastFloor ==
  call.fn = "calculateCraterDiameter" => Ge(call.ret, Dec(1, -1))

\* Whether AsteroidData d is outside the documented domain: diameter <= 0,
\* velocity <= 0, or angle outside (0, 90].
InvalidInput(d) ==
  \/ ~Gt(d.diameter, Zero)
  \/ ~Gt(d.velocity, Zero)
  \/ ~Gt(d.angle, Zero)
  \/ Gt(d.angle, Int2Num(90))

\* C4: calculateImpact called with input outside the domain never fulfils its
\* promise and produces no result record.
C4_InvalidInputRejected ==
  \A i \in Invocations :
    (pc[i] # "idle" /\ InvalidInput(data[i])) =>
      (promise[i] # "fulfilled" /\ results[i] = NoResults)

\* Strictly inside one of the three ocean boxes; lat10 and lon10 are tenths of a degree.
StrictlyInsideOceanBox(lat10, lon10) ==
  \/ (lon10 > 1200 \/ lon10 < -700) /\ Abs(lat10) < 600
  \/ -700 < lon10 /\ lon10 < -100 /\ Abs(lat10) < 600
  \/ 400 < lon10 /\ lon10 < 1200 /\ -500 < lat10 /\ lat10 < 200

\* C5: for a point strictly inside an ocean box, isOceanImpact consumes no
\* random value and returns the same answer whatever the random source holds.
C5_BoxesNeedNoRandom ==
  (call.fn = "isOceanImpact" /\ StrictlyInsideOceanBox(call.args[1], call.args[2])) =>
    /\ call.draws = <<>>
    /\ \A r \in RandomValues :
         /\ isOceanImpact(Dec(call.args[1], -1), Dec(call.args[2], -1), r).value = call.ret
         /\ isOceanImpact(Dec(call.args[1], -1), Dec(call.args[2], -1), r).draws = <<>>

\* C5 witness: a point of the Indian Ocean box was classified as ocean although
\* the random source held a value above the ocean threshold.
C5_Witness ==
  /\ call.fn = "isOceanImpact"
  /\ call.args = <<-200, 800>>
  /\ call.random = Dec(99, -2)
  /\ call.ret = TRUE
  /\ call.draws = <<>>

\* C6: two invocations of calculateImpact with the same AsteroidData that were
\* delivered the same random values return the same record.
C6_SameInputSameRecord ==
  \A i, j \in Invocations :
    (Fulfilled(i) /\ Fulfilled(j) /\ data[i] = data[j] /\ drawn[i] = drawn[j]) =>
      results[i] = results[j]

\* C6 witness: two interleaved invocations outside every box, both delivered the
\* same two random values, have returned.
C6_Witness ==
  /\ Fulfilled(1)
  /\ Fulfilled(2)
  /\ data[1] = TunguskaScenario
  /\ data[2] = TunguskaScenario
  /\ Len(drawn[1]) = 2
  /\ drawn[1] = drawn[2]
  /\ randomLog = <<1, 1, 2, 2>>
  /\ results[1] = results[2]

\* C7 as stated: every invocation of calculateImpact draws exactly two random values.
C7_AlwaysTwoDraws ==
  \A i \in Invocations : Fulfilled(i) => Len(drawn[i]) = 2

\* Whether the location of AsteroidData d is inside one of the ocean boxes.
InOceanBox(d) ==
  \/ PacificBox(d.impactLat, d.impactLon)
  \/ AtlanticBox(d.impactLat, d.impactLon)
  \/ IndianBox(d.impactLat, d.impactLon)

\* C7: every invocation of calculateImpact draws once for the population
\* variation, and once before it for the ocean fallback exactly when the
\* location is outside all three ocean boxes; all draws precede the first await.
C7_DrawsByLocation ==
  \A i \in Invocations :
    pc[i] # "idle" =>
      Len(drawn[i]) = IF InOceanBox(data[i]) THEN 1 ELSE 2

\* C7 witness: an invocation inside an ocean box has returned after one draw.
C7_Witness ==
  /\ Fulfilled(1)
  /\ data[1] = ChicxulubScenario
  /\ Len(drawn[1]) = 1
  /\ randomLog = <<1>>

\* |a - b| is within 1% of the larger magnitude.
Close(a, b) ==
  \/ a = b
  \/ Lt(MathAbs(Sub(a, b)), Mul(MathMax(MathAbs(a), MathAbs(b)), Dec(1, -2)))

\* C8: the joule value calculateSeismicMagnitude takes the logarithm of equals
\* (to rounding) the kinetic energy in joules calculateEnergy started from.
C8_JouleRoundTrip ==
  \A i \in Invocations :
    Fulfilled(i) =>
      Close(seismicEnergyJoules(results[i].energy),
            kineticEnergyJoules(results[i].mass, data[i].velocity))

\* C9: the Chicxulub-like input returns an energy between 10^7 and 10^8 megatons.
C9_ChicxulubEnergy ==
  \A i \in Invocations :
    (Fulfilled(i) /\ data[i] = ChicxulubScenario) =>
      /\ Ge(results[i].energy, Dec(1, 7))
      /\ Ge(Dec(1, 8), results[i].energy)

\* C10: for mass >= 0 and velocity >= 0, calculateEnergy is not negative, is
\* four times as large at twice the velocity, and is zero when mass or velocity is.
C10_EnergyAlgebra ==
  (/\ call.fn = "calculateEnergy"
   /\ Ge(call.args[1], Zero)
   /\ Ge(call.args[2], Zero)) =>
    /\ Ge(call.ret, Zero)
    /\ calculateEnergy(call.args[1], Mul(Int2Num(2), call.args[2])) = Mul(Int2Num(4), call.ret)
    /\ (call.args[1] = Zero \/ call.args[2] = Zero) => call.ret = Zero

\* C10 witness: a 500 m body at 20 km/s has a positive energy, and four times
\* that energy at 40 km/s.
C10_Witness ==
  /\ call.fn = "calculateEnergy"
  /\ call.args = <<Dec(1309, 8), Int2Num(20)>>
  /\ Gt(call.ret, Dec(1, 6))
  /\ calculateEnergy(Dec(1309, 8), Int2Num(40)) = Mul(Int2Num(4), call.ret)

\* C11: for diameter > 0, calculateMass is strictly increasing in the diameter
\* and eight times as large at twice the diameter.
C11_MassCubic ==
  (call.fn = "calculateMass" /\ Gt(call.args[1], Zero)) =>
    /\ \A d \in MassDiameters :
         Lt(call.args[1], d) => Lt(call.ret, calculateMass(d))
    /\ calculateMass(Mul(Int2Num(2), call.args[1])) = Mul(Int2Num(8), call.ret)

\* C11 witness: a 500 m body weighs more than a 60 m body and an eighth of a
\* 1000 m body.
C11_Witness ==
  /\ call.fn = "calculateMass"
  /\ call.args = <<Int2Num(500)>>
  /\ Gt(call.ret, calculateMass(Int2Num(60)))
  /\ calculateMass(Int2Num(1000)) = Mul(Int2Num(8), call.ret)

\* The population density the documentation describes for AsteroidData d and
\* variation factor v: the latitude-band base times the longitude multiplier
\* times v, and never below 1.
DocumentedDensity(d, v) ==
  MathMax(One,
    Mul(Mul(IF Lt(MathAbs(d.impactLat), Int2Num(30)) THEN Int2Num(200)
            ELSE IF Lt(MathAbs(d.impactLat), Int2Num(50)) THEN Int2Num(150)
            ELSE IF Lt(MathAbs(d.impactLat), Int2Num(70)) THEN Int2Num(20)
            ELSE One,
            IF Gt(d.impactLon, Int2Num(-180)) /\ Lt(d.impactLon, Int2Num(-50)) THEN Dec(8, -1)
            ELSE IF Gt(d.impactLon, Int2Num(-50)) /\ Lt(d.impactLon, Int2Num(50)) THEN Dec(12, -1)
            ELSE IF Gt(d.impactLon, Int2Num(50)) /\ Lt(d.impactLon, Int2Num(150)) THEN Dec(15, -1)
            ELSE Dec(3, -1)),
        v))

\* The affectedPopulation of invocation i is a non-negative integer, equal to
\* round(density * pi * max(shockwaveRadius, thermalRadius)^2) for the
\* documented density with the variation 0.5 + the last value drawn.
PopulationAsDocumented(i) ==
  /\ IsNum(results[i].affectedPopulation)
  /\ IsInteger(results[i].affectedPopulation)
  /\ results[i].affectedPopulation.m >= 0
  /\ Ge(frame[i].density, One)
  /\ frame[i].density =
       DocumentedDensity(data[i], Add(Dec(5, -1), drawn[i][Len(drawn[i])]))
  /\ Ge(Add(Dec(5, -1), drawn[i][Len(drawn[i])]), Dec(5, -1))
  /\ Ge(Dec(15, -1), Add(Dec(5, -1), drawn[i][Len(drawn[i])]))
  /\ results[i].affectedPopulation =
       MathRound(Mul(frame[i].density,
                     Mul(MathPI, MathPow(MathMax(results[i].shockwaveRadius,
                                                 results[i].thermalRadius), Int2Num(2)))))

\* C12: in every record calculateImpact returns, affectedPopulation is a
\* non-negative integer computed from the documented density and radius.
C12_PopulationAlways ==
  \A i \in Invocations : Fulfilled(i) => PopulationAsDocumented(i)

\* The same for the invocations whose diameter is not negative.
PopulationForNonNegativeDiameter ==
  \A i \in Invocations :
    (Fulfilled(i) /\ Ge(data[i].diameter, Zero)) => PopulationAsDocumented(i)

\* C13: the default scenario (lat 40.7, lon -74.0) is classified as land: its
\* record has isOceanImpact false and no tsunamiHeight, whatever was drawn.
C13_DefaultIsLand ==
  \A i \in Invocations :
    (Fulfilled(i) /\ data[i] = DefaultScenario) =>
      (~results[i].isOceanImpact /\ "tsunamiHeight" \notin DOMAIN results[i])

\* The record calculateImpact builds from the constants f of its synchronous
\* part once the population estimate has been added.
RecordOfFrame(f) ==
  buildResults([f EXCEPT !.affectedPopulation =
                  affectedPopulationOf(f.density, f.shockwaveRadius, f.thermalRadius)])

\* The record calculateImpact(d) returns when it is delivered the random values
\* `draws`, computed from nothing but d and draws.
OwnRecord(d, draws) == RecordOfFrame(syncFrame(d, draws[1], draws[Len(draws)]).frame)

\* C14: however the invocations in flight interleave at their awaits, the
\* record of each is the one determined by its own AsteroidData and the random
\* values it drew itself.
C14_RecordFromOwnInputs ==
  \A i \in Invocations :
    Fulfilled(i) => results[i] = OwnRecord(data[i], drawn[i])

\* C14 witness: two invocations with different data were both started before
\* either resumed, and the second has returned first.
C14_Witness ==
  /\ Fulfilled(2)
  /\ pc[1] = "estimateAwait"
  /\ data[1] = DefaultScenario
  /\ data[2] = TunguskaScenario
  /\ randomLog = <<1, 2, 2>>
  /\ drawn[1] # <<drawn[2][2]>>

\* C15: from the call on, no step of calculateImpact changes a field of the
\* AsteroidData record it was called with.
C15_InputUnchanged ==
  [][\A i \in Invocations : pc[i] # "idle" => data'[i] = data[i]]_vars

\* C15 witness: a land impact has returned and its argument still is the
\* record of the call.
C15_Witness ==
  /\ Fulfilled(1)
  /\ ~results[1].isOceanImpact
  /\ data[1] = TunguskaScenario

\* C16: for a point that is not strictly inside an ocean box, isOceanImpact
\* draws one random value and returns true exactly when that value is below 0.71.
C16_FallbackByDraw ==
  (call.fn = "isOceanImpact" /\ ~StrictlyInsideOceanBox(call.args[1], call.args[2])) =>
    /\ call.draws = <<call.random>>
    /\ call.ret <=> Lt(call.random, Dec(71, -2))

\* C16 witness: on the boundary longitude -70 a draw of exactly 0.71 gave land.
C16_Witness ==
  /\ call.fn = "isOceanImpact"
  /\ call.args = <<0, -700>>
  /\ call.random = Dec(71, -2)
  /\ call.draws = <<Dec(71, -2)>>
  /\ call.ret = FALSE

\* C17 as stated: at the latitude of a call inside the band |lat| < 60, some
\* longitude satisfies both the Pacific and the Atlantic condition.
C17_BoxesOverlap ==
  (call.fn = "isOceanImpact" /\ Abs(call.args[1]) < 600) =>
    \E lon10 \in OceanLons :
      /\ PacificBox(Dec(call.args[1], -1), Dec(lon10, -1))
      /\ AtlanticBox(Dec(call.args[1], -1), Dec(lon10, -1))

\* C17: no point isOceanImpact is called with satisfies both the Pacific and
\* the Atlantic condition; on the longitude -70 between them neither holds.
C17_BoxesDisjoint ==
  call.fn = "isOceanImpact" =>
    /\ ~(/\ PacificBox(Dec(call.args[1], -1), Dec(call.args[2], -1))
         /\ AtlanticBox(Dec(call.args[1], -1), Dec(call.args[2], -1)))
    /\ call.args[2] = -700 =>
         (/\ ~PacificBox(Dec(call.args[1], -1), Dec(call.args[2], -1))
          /\ ~AtlanticBox(Dec(call.args[1], -1), Dec(call.args[2], -1)))

\* C17 witness: 0.1 degree east of the longitude -70 a point is in the Atlantic
\* box only, and was classified without a draw.
C17_Witness ==
  /\ call.fn = "isOceanImpact"
  /\ call.args = <<0, -699>>
  /\ AtlanticBox(Zero, Dec(-699, -1))
  /\ ~PacificBox(Zero, Dec(-699, -1))
  /\ call.draws = <<>>

\* The height for an initial-height term h: h * energy^0.25 * 0.1.
HeightFrom(h, energy) == Mul(Mul(h, MathPow(energy, Dec(25, -2))), Dec(1, -1))

\* The documented height for the water depth wd.
DocumentedTsunami(energy, craterDiameter, wd) ==
  /\ call.ret =
       HeightFrom(MathMin(Div(Mul(craterDiameter, Int2Num(1000)), Int2Num(10)),
                          Mul(wd, Dec(5, -1))), energy)
  /\ Ge(HeightFrom(Mul(wd, Dec(5, -1)), energy), call.ret)
  /\ Gt(craterDiameter, Div(wd, Int2Num(200))) <=>
       (/\ call.ret = HeightFrom(Mul(wd, Dec(5, -1)), energy)
        /\ Lt(call.ret, HeightFrom(Div(Mul(craterDiameter, Int2Num(1000)), Int2Num(10)),
                                   energy)))

\* C18: calculateTsunamiHeight returns min(craterDiameter*1000/10, waterDepth*0.5)
\* * energy^0.25 * 0.1 with waterDepth 4000 when left out; the height never
\* exceeds the one of half the water depth, and the cap applies exactly when
\* craterDiameter > waterDepth / 200.
C18_TsunamiFormula ==
  call.fn = "calculateTsunamiHeight" =>
    DocumentedTsunami(call.args[1], call.args[2],
                      IF call.args[3] = Undefined THEN Int2Num(4000) ELSE call.args[3])

\* C18 witness: with the water depth left out, an 88 km crater is capped at the
\* height of 2000 m, below that of its own 8800 m.
C18_Witness ==
  /\ call.fn = "calculateTsunamiHeight"
  /\ call.args = <<Dec(626, 4), Int2Num(88), Undefined>>
  /\ call.ret = HeightFrom(Int2Num(2000), Dec(626, 4))
  /\ Lt(call.ret, HeightFrom(Int2Num(8800), Dec(626, 4)))

\* C19: under a fair event loop every invocation of calculateImpact that was
\* called eventually has its promise fulfilled with a result record.
C19_EventuallySettled ==
  \A i \in Invocations :
    (pc[i] = "estimateAwait") ~> (Fulfilled(i) /\ "mass" \in DOMAIN results[i])

\* C19 witness: every invocation in flight has returned a record.
C19_Witness ==
  \A i \in Invocations :
    /\ pc[i] = "returned"
    /\ Fulfilled(i)
    /\ "affectedPopulation" \in DOMAIN results[i]

\* C20: in every record calculateImpact returns, one classification serves
\* three uses: it is the isOceanImpact field, the crater is sized with its
\* terrain factor, and tsunamiHeight is present exactly when it is true; it is
\* the outcome of at most one draw, taken before the population draw.
C20_OneClassification ==
  \A i \in Invocations :
    Fulfilled(i) =>
      /\ Len(drawn[i]) <= 2
      /\ results[i].isOceanImpact =
           (InOceanBox(data[i]) \/ (Len(drawn[i]) = 2 /\ Lt(drawn[i][1], Dec(71, -2))))
      /\ results[i].craterDiameter =
           calculateCraterDiameter(results[i].energy, data[i].velocity, data[i].angle,
                                   results[i].isOceanImpact)
      /\ results[i].isOceanImpact = ("tsunamiHeight" \in DOMAIN results[i])

\* C20 witness: an impact outside every box that the fallback classified as
\* ocean has the smaller ocean crater and a tsunamiHeight.
C20_Witness ==
  /\ Fulfilled(1)
  /\ data[1] = TunguskaScenario
  /\ Len(drawn[1]) = 2
  /\ results[1].isOceanImpact
  /\ Lt(results[1].craterDiameter,
        calculateCraterDiameter(results[1].energy, data[1].velocity, data[1].angle, FALSE))
  /\ Gt(results[1].tsunamiHeight, Zero)

\* The positions of randomLog at which invocation i called Math.random().
DrawPositions(i) == { n \in DOMAIN randomLog : randomLog[n] = i }

\* No Math.random() call of another invocation lies between two of the same
\* invocation.
DrawsContiguous ==
  \A a, b, c \in DOMAIN randomLog :
    (a < b /\ b < c /\ randomLog[a] = randomLog[c]) => randomLog[b] = randomLog[a]

\* C21: every invocation of calculateImpact has taken all of its random draws
\* by the time it is first suspended at an await and takes none afterwards: one
\* draw inside an ocean box, two outside, where the first decides the ocean
\* fallback and the second is the population variation; the draws of one
\* invocation are never separated by a draw of another invocation.
C21_DrawsBeforeYield ==
  /\ \A i \in Invocations :
       IF pc[i] = "idle"
       THEN DrawPositions(i) = {} /\ drawn[i] = <<>>
       ELSE /\ Cardinality(DrawPositions(i)) = Len(drawn[i])
            /\ Len(drawn[i]) = IF InOceanBox(data[i]) THEN 1 ELSE 2
            /\ frame[i].density =
                 DocumentedDensity(data[i], Add(Dec(5, -1), drawn[i][Len(drawn[i])]))
            /\ Len(drawn[i]) = 2 =>
                 frame[i].isOcean = Lt(drawn[i][1], EARTH_OCEAN_COVERAGE)
  /\ DrawsContiguous

\* C21 witness: two invocations outside every ocean box are suspended at their
\* first await together; the first drew 0 for the fallback (ocean) and then 0.99
\* for the variation, and its two draws precede both draws of the second.
C21_Witness ==
  /\ pc[1] = "estimateAwait"
  /\ pc[2] = "estimateAwait"
  /\ data[1] = TunguskaScenario
  /\ data[2] = TunguskaScenario
  /\ drawn[1] = <<Zero, Dec(99, -2)>>
  /\ Len(drawn[2]) = 2
  /\ frame[1].isOcean
  /\ randomLog = <<1, 1, 2, 2>>

=============================================================================
